---------------------------- MODULE Spec2Model ----------------------------
(***************************************************************************)
(* Model of the image-tile resolution and retrieval code of                *)
(* interactive_label_sam2 (src/src/interactive_label_sam2/gcs_utils.py):   *)
(*   - get_image_paths_for_uid: year selection and path construction       *)
(*   - get_image_tile: ordered, first-success tile read                    *)
(***************************************************************************)
EXTENDS Integers, Sequences, FiniteSets, TLC

VARIABLES
    \* ---- get_image_paths_for_uid ----
    correspondence_gdf,   \* the caller's correspondence table: a sequence of rows
    uid,                  \* the uid argument
    bucket_objects,       \* the objects that exist in the remote store (environment)
    r_pc,                 \* "call" before the call, "done" after it, "again" after a second call
    r_result,             \* [raised, paths] of the call
    r_table0,             \* the caller's table as it was before the first call
    r_first,              \* [raised, paths] of the first call
    \* ---- get_image_tile ----
    gcs_paths,            \* the gcs_paths argument
    center_point,         \* the center_point argument, [x, y] in half pixels
    center_crs,           \* the CRS the caller's coordinates are expressed in
    tile_size,            \* the tile_size argument
    t_pc,                 \* position in get_image_tile
    t_i,                  \* index of the path of the current loop iteration
    t_src,                \* the open raster handles (paths)
    t_log,                \* one entry per path attempted, in order of attempt
    t_setup,              \* how gcsfs.GCSFileSystem() ended: "none", "ok", "error"
    t_ret,                \* the value returned
    t_exc,                \* the exception that reached the caller
    \* ---- load_correspondence_data ----
    l_file,               \* the file at correspondence_path (environment)
    l_pc,                 \* "call" before the call, "done" after it
    l_reads,              \* the number of gpd.read_file calls made
    l_stderr,             \* the message written to stderr
    l_ret,                \* the value returned
    \* ---- get_feature_info ----
    f_gdf,                \* the table of positive features: rows [UID, geometry]
    f_uid,                \* the uid argument
    f_pc,                 \* "call" before the call, "done" after it
    f_ret,                \* the value returned
    \* ---- create_manifest ----
    m_manifest,           \* manifest.csv: whether it exists, and its rows
    m_manifest0,          \* manifest.csv as it was before the script ran
    m_answer,             \* what the user types at the prompt
    m_geojson,            \* the input GeoJSON file
    m_pc,                 \* "start", "load", "done"
    m_outcome             \* the path by which the script ended

rvars == <<correspondence_gdf, uid, bucket_objects, r_pc, r_result, r_table0, r_first>>
tvars == <<gcs_paths, center_point, center_crs, tile_size, t_pc, t_i, t_src, t_log,
           t_setup, t_ret, t_exc>>
lvars == <<l_file, l_pc, l_reads, l_stderr, l_ret>>
\* the variables of the data-management components
fvars == <<f_gdf, f_uid, f_pc, f_ret>>
mvars == <<m_manifest, m_manifest0, m_answer, m_geojson, m_pc, m_outcome>>
xvars == <<lvars, fvars, mvars>>
vars == <<rvars, tvars, xvars>>

-----------------------------------------------------------------------------
(* Bounds of the model *)

MaxRows == 4      \* rows of a correspondence table
MaxPaths == 3     \* length of the gcs_paths argument
MaxTile == 2      \* largest tile_size
MaxX == 5         \* largest x of a centre point, in half pixels
MaxY == 3         \* largest y of a centre point, in half pixels
MaxFeatures == 2  \* features of a correspondence file
MaxHistory == 3   \* rows of the table of positive features

-----------------------------------------------------------------------------
(* Small helpers *)

Max(S) == CHOOSE m \in S : \A n \in S : n <= m
Min(S) == CHOOSE m \in S : \A n \in S : m <= n
Range(s) == {s[k] : k \in 1..Len(s)}

DigitChar == <<"0", "1", "2", "3", "4", "5", "6", "7", "8", "9">>
DigitValue(c) == (CHOOSE d \in 1..10 : DigitChar[d] = c) - 1

RECURSIVE Digits(_)
\* the decimal numeral of a natural number, one character per element, as an
\* f-string formats an int
Digits(n) ==
    IF n < 10 THEN <<DigitChar[n + 1]>>
    ELSE Digits(n \div 10) \o <<DigitChar[(n % 10) + 1]>>

RECURSIVE ParseDigits(_)
\* the number a decimal numeral denotes
ParseDigits(d) ==
    IF Len(d) = 0 THEN 0
    ELSE 10 * ParseDigits(SubSeq(d, 1, Len(d) - 1)) + DigitValue(d[Len(d)])

-----------------------------------------------------------------------------
(* The correspondence table *)

ImageIdNames == {"A", "B"}
NoId == "None"           \* a null 'id' property, as an f-string formats it
DefaultYear == 2023

IntCell(y) == [t |-> "int", v |-> y]
StrCell(y) == [t |-> "str", v |-> y]    \* the numeral of y, held as text
NaNCell == [t |-> "nan", v |-> 0]       \* a missing value: not integer-coercible

Row(u, i, c) == [UID |-> u, id |-> i, planet_basemap_year |-> c]

Years == {2021, 2022, 2023}
\* the uid queried; the tables also hold rows of the uid "u2"
QueryUids == {"u1"}

\* The rows the tables are drawn from
Rows ==
    {Row("u1", i, IntCell(y)) : i \in ImageIdNames, y \in Years}
    \cup {Row("u1", NoId, IntCell(2023)),
          Row("u1", "A", StrCell(2022)), Row("u1", "B", NaNCell),
          Row("u2", "A", IntCell(2022)), Row("u2", "A", NaNCell)}

Tables == UNION {[1..n -> Rows] : n \in 0..MaxRows}

-----------------------------------------------------------------------------
(* get_image_paths_for_uid *)

\* correspondence_gdf[correspondence_gdf['UID'] == uid].copy()
uid_features(gdf, u) == SelectSeq(gdf, LAMBDA r : r.UID = u)

\* .astype(int) raises on a value that is not integer-coercible
astype_raises(uf) ==
    \E k \in 1..Len(uf) : uf[k].planet_basemap_year.t = "nan"

\* uid_features['planet_basemap_year'].astype(int), assigned to the copy
astype_int(uf) ==
    [k \in 1..Len(uf) |->
        [uf[k] EXCEPT !.planet_basemap_year = IntCell(@.v)]]

\* uid_features.groupby('id')['planet_basemap_year'].max(): groupby drops the
\* rows whose key is null
latest_years(uf) ==
    [i \in {uf[k].id : k \in 1..Len(uf)} \ {NoId} |->
        Max({uf[k].planet_basemap_year.v :
                k \in {j \in 1..Len(uf) : uf[j].id = i}})]

\* Series.mode()[0]: the most frequent value, the smallest one on a tie
mode0(ly) ==
    LET vals == {ly[i] : i \in DOMAIN ly}
        count(y) == Cardinality({i \in DOMAIN ly : ly[i] = y})
        top == {y \in vals : \A z \in vals : count(z) <= count(y)}
    IN  Min(top)

\* the year selected for (coerced) uid_features
common_year(uf) ==
    IF DOMAIN latest_years(uf) # {} THEN mode0(latest_years(uf))
    ELSE DefaultYear

\* Mutant of final_features: the filter keeps the selected year and every
\* later one (>= for ==)
final_features_from_year(uf, cy) ==
    SelectSeq(uf, LAMBDA r : r.planet_basemap_year.v >= cy)

\* uid_features[uid_features['planet_basemap_year'] == common_year]
final_features(uf, cy) ==
    SelectSeq(uf, LAMBDA r : r.planet_basemap_year.v = cy)

bucket_name == "abrupt_thaw"
base_path == <<bucket_name, "/planet_basemaps/global_quarterly_COGs">>
QuadMarker == "quad"

\* f"gs://{base_path}/{mosaic_name}/{file_name}" for one row
full_path(row) ==
    LET year == row.planet_basemap_year.v
        quarter_str == Digits(year) \o <<"q3">>
        image_id == row.id
        mosaic_name == <<"global_quarterly_">> \o quarter_str \o <<"_mosaic">>
        file_name == mosaic_name \o <<"_", image_id, "_", QuadMarker, ".tif">>
    IN  <<"gs://">> \o base_path \o <<"/">> \o mosaic_name \o <<"/">> \o file_name

\* the loop over final_features.iterrows(): one path per row, in row order
gcs_paths_of(ff) == [k \in 1..Len(ff) |-> full_path(ff[k])]

\* Mutant of get_image_paths_for_uid: the year column of the whole table is
\* coerced before the rows are filtered to the uid
\* Mutant of caller_table_after: the coerced years are assigned to the rows of
\* the caller's table instead of a copy
caller_table_written_through(u, gdf) ==
    IF astype_raises(uid_features(gdf, u)) THEN gdf
    ELSE [k \in 1..Len(gdf) |->
            IF gdf[k].UID = u
            THEN [gdf[k] EXCEPT !.planet_basemap_year = IntCell(@.v)]
            ELSE gdf[k]]

\* correspondence_gdf[...].copy(): every later assignment and filter acts on
\* the copy, so the caller's table is as it was
caller_table_after(u, gdf) == gdf

get_image_paths_coerce_first(u, gdf) ==
    LET uf == uid_features(gdf, u) IN
    IF astype_raises(gdf) THEN [raised |-> TRUE, paths |-> <<>>]
    ELSE IF Len(uf) = 0 THEN [raised |-> FALSE, paths |-> <<>>]
    ELSE LET cf == astype_int(uf)
             cy == common_year(cf)
         IN  [raised |-> FALSE, paths |-> gcs_paths_of(final_features(cf, cy))]

get_image_paths_for_uid(u, gdf) ==
    LET uf == uid_features(gdf, u) IN
    IF Len(uf) = 0 THEN [raised |-> FALSE, paths |-> <<>>]
    ELSE IF astype_raises(uf) THEN [raised |-> TRUE, paths |-> <<>>]
    ELSE LET cf == astype_int(uf)
             cy == common_year(cf)
         IN  [raised |-> FALSE, paths |-> gcs_paths_of(final_features(cf, cy))]

\* The stores the environment is drawn from: nothing uploaded, or every quad
\* of the years and image ids of the tables
Buckets ==
    {{}, {full_path(Row("u1", i, IntCell(y))) : i \in ImageIdNames, y \in Years}}

NoResult == [raised |-> FALSE, paths |-> <<>>]

-----------------------------------------------------------------------------
(* get_image_tile: the rasters behind the paths *)

Paths == {"p1", "p2"}

\* src.bounds of the raster behind each path, in half pixels (src.res is one
\* pixel, two units, in both directions)
Bounds(path) ==
    IF path = "p1" THEN [left |-> 0, right |-> 4, bottom |-> 0, top |-> 2]
    ELSE [left |-> 2, right |-> 6, bottom |-> 0, top |-> 4]

\* src.crs of the rasters (the basemap quads are Web Mercator), and the CRSs
\* a caller's coordinates may be expressed in
RasterCrs(path) == "EPSG:3857"
CrsNames == {"EPSG:3857", "EPSG:3413"}

PathLists == UNION {[1..n -> Paths] : n \in 0..MaxPaths}
Points == [x : 0..MaxX, y : 0..MaxY]
TileSizes == (-1)..MaxTile

NoneValue == [kind |-> "None"]
Unset == [kind |-> "unset"]

\* src.res: the size of a pixel, in the units of the coordinates
Res == 2

\* the check "src.bounds.left < x < src.bounds.right and
\* src.bounds.bottom < y < src.bounds.top"
in_bounds(b, pt) ==
    /\ b.left < pt.x /\ pt.x < b.right
    /\ b.bottom < pt.y /\ pt.y < b.top

\* the geographic bounds of the tile: the centre -/+ (tile_size / 2) * res
tile_bounds(pt, ts) ==
    LET half_width == (ts * Res) \div 2
        half_height == (ts * Res) \div 2
    IN  [left |-> pt.x - half_width, bottom |-> pt.y - half_height,
         right |-> pt.x + half_width, top |-> pt.y + half_height]

\* rasterio.windows.from_bounds rejects bounds that run backwards
from_bounds_raises(tb) == tb.right < tb.left \/ tb.top < tb.bottom

\* rasterio.windows.from_bounds(*bounds, src.transform): offsets and lengths
\* of the window, kept in coordinate units (Res units to the pixel)
from_bounds(tb, b) ==
    [col_off |-> tb.left - b.left, row_off |-> b.top - tb.top,
     width |-> tb.right - tb.left, height |-> tb.top - tb.bottom]

Clamp(v, lo, hi) == IF v < lo THEN lo ELSE IF v > hi THEN hi ELSE v

\* src.read(window=window), not boundless: the window is cropped to the
\* raster and its lengths are rounded to whole pixels; a window of no pixels
\* reads as an empty array
read_shape(win, b) ==
    LET W == b.right - b.left
        H == b.top - b.bottom
        c0 == Clamp(win.col_off, 0, W)
        c1 == Clamp(win.col_off + win.width, 0, W)
        r0 == Clamp(win.row_off, 0, H)
        r1 == Clamp(win.row_off + win.height, 0, H)
    IN  [col_off |-> c0, row_off |-> r0,
         width |-> ((c1 - c0) + Res \div 2) \div Res,
         height |-> ((r1 - r0) + Res \div 2) \div Res]

\* what the success branch returns for one path: (data, profile)
tile_of(path, pt, ts) ==
    LET b == Bounds(path)
        window == from_bounds(tile_bounds(pt, ts), b)
        shape == read_shape(window, b)
    IN  [kind |-> "tuple",
         data |-> [path |-> path, col_off |-> shape.col_off,
                   row_off |-> shape.row_off,
                   height |-> shape.height, width |-> shape.width],
         profile |-> [path |-> path, height |-> shape.height,
                      width |-> shape.width,
                      \* src.window_transform(window): the origin of the window
                      x0 |-> b.left + window.col_off,
                      y0 |-> b.top - window.row_off]]

\* Mutant of with_exit: the raster is opened without a with block and the
\* handle is never closed
with_exit_leaks(handles, h) == handles

\* leaving the "with rasterio.open(...) as src" block closes the handle
with_exit(handles, h) == handles \ {h}

Attempt(path, outcome, w, h) ==
    [path |-> path, outcome |-> outcome, width |-> w, height |-> h]

-----------------------------------------------------------------------------
(* load_correspondence_data: the file and the value returned *)

CanonicalCrs == "EPSG:3413"
FileCrs == {"EPSG:3413", "EPSG:4326", "EPSG:3857"}

\* the x coordinates of the features of a file
CoordSeqs == UNION {[1..n -> 0..MaxX] : n \in 0..MaxFeatures}

MissingFile ==
    [exists |-> FALSE, wellformed |-> FALSE, crs |-> CanonicalCrs, coords |-> <<>>]

\* no file, or a file that declares a CRS and holds features; a file that is
\* not well formed cannot be read as geospatial data
LoadFiles ==
    {MissingFile}
    \cup [exists : {TRUE}, wellformed : BOOLEAN, crs : FileCrs, coords : CoordSeqs]

\* what gpd.read_file returns for a well-formed file: the declared CRS and the
\* coordinates as they are in the file
read_file(file) == [kind |-> "gdf", crs |-> file.crs, coords |-> file.coords]

LoadIdle ==
    /\ l_file = MissingFile
    /\ l_pc = "idle"
    /\ l_reads = 0
    /\ l_stderr = "none"
    /\ l_ret = Unset

-----------------------------------------------------------------------------
(* get_feature_info: geometries, their union and its centroid *)

RECURSIVE GCD(_, _)
GCD(a, b) == IF b = 0 THEN a ELSE GCD(b, a % b)

\* a rational number n/d in lowest terms, d > 0
Frac(n, d) == <<n \div GCD(n, d), d \div GCD(n, d)>>

RECURSIVE Sum(_, _)
Sum(S, axis) ==
    IF S = {} THEN 0
    ELSE LET c == CHOOSE c \in S : TRUE
         IN  (2 * c[axis] + 1) + Sum(S \ {c}, axis)

\* a polygon is the set of unit cells <<x, y>> it covers
Rect(x1, x2, y1, y2) == (x1..x2) \X (y1..y2)

Polygons ==
    { Rect(0, 0, 0, 0), Rect(0, 2, 0, 0), Rect(0, 0, 0, 1),
      Rect(1, 2, 0, 1), Rect(0, 2, 0, 1), Rect(2, 2, 1, 1) }

FeatureUids == {"u1", "u2"}
FeatureRows == [UID : FeatureUids, geometry : Polygons]
FeatureTables == UNION {[1..n -> FeatureRows] : n \in 0..MaxHistory}
FeatureQueries == {"u1", "u3"}

\* Mutant of feature_gdf: the table is not filtered by UID
feature_gdf_unfiltered(u, gdf) == gdf

\* gdf[gdf['UID'] == uid]
feature_gdf(u, gdf) == SelectSeq(gdf, LAMBDA r : r.UID = u)

\* list(feature_gdf.geometry)
geometry_list(fgdf) == [k \in 1..Len(fgdf) |-> fgdf[k].geometry]

\* feature_gdf.geometry.unary_union: the region covered by any of the geometries
unary_union(geoms) == UNION Range(geoms)

\* combined_geometry.centroid: the mean of the cell centres (cx + 1/2, cy + 1/2)
centroid(geom) ==
    [x |-> Frac(Sum(geom, 1), 2 * Cardinality(geom)),
     y |-> Frac(Sum(geom, 2), 2 * Cardinality(geom))]

\* the mean of the rationals cs[1], ..., cs[n] as <<numerator, denominator>> of
\* their sum, not yet divided by n
RECURSIVE FracSum(_)
FracSum(cs) ==
    IF cs = <<>> THEN <<0, 1>>
    ELSE LET h == Head(cs)
             t == FracSum(Tail(cs))
         IN  <<h[1] * t[2] + t[1] * h[2], h[2] * t[2]>>

\* Mutant of combined_centroid: the mean of the centroids of the polygons
mean_of_centroids(geoms) ==
    LET xs == [k \in 1..Len(geoms) |-> centroid(geoms[k]).x]
        ys == [k \in 1..Len(geoms) |-> centroid(geoms[k]).y]
    IN  [x |-> Frac(FracSum(xs)[1], FracSum(xs)[2] * Len(geoms)),
         y |-> Frac(FracSum(ys)[1], FracSum(ys)[2] * Len(geoms))]

\* feature_gdf.geometry.unary_union.centroid
combined_centroid(geoms) == centroid(unary_union(geoms))

FeatureIdle ==
    /\ f_gdf = <<>>
    /\ f_uid = "u1"
    /\ f_pc = "idle"
    /\ f_ret = Unset

-----------------------------------------------------------------------------
(* create_manifest: the files and the answer at the prompt *)

ManifestRow(u, status) ==
    [uid |-> u, labeling_status |-> status, worker_id |-> "",
     start_time_utc |-> "", end_time_utc |-> "", output_filename |-> "",
     notes |-> ""]

NoManifest == [exists |-> FALSE, rows |-> <<>>]

\* manifest.csv before the script runs: absent, empty, or holding work done
Manifests ==
    { NoManifest,
      [exists |-> TRUE, rows |-> <<>>],
      [exists |-> TRUE, rows |-> <<ManifestRow("u1", "completed")>>] }

\* input() raises EOFError when standard input is closed
EndOfInput == "EOF"
Answers == {"y", "Y", "n", "N", "", "yes", "YES"}

\* str.lower
lower(a) ==
    CASE a = "Y" -> "y"
      [] a = "N" -> "n"
      [] a = "YES" -> "yes"
      [] OTHER -> a

\* Mutant of overwrite_confirmed: every answer but 'n' confirms
overwrite_unless_refused(a) == lower(a) # "n"

\* the negation of "if overwrite != 'y'"
overwrite_confirmed(a) == lower(a) = "y"

GeoRows == [UID : {"u1", "u2"}, TrainClass : {"Positive", "Negative"}]

\* the input file: absent, unreadable, not JSON, JSON that is not a
\* geospatial layer, or a layer with some of the columns and some rows
GeoJsons ==
    [kind : {"missing", "unreadable", "invalid_json", "not_a_layer"},
     columns : {{}}, rows : {<<>>}]
    \cup [kind : {"layer"},
          columns : SUBSET {"TrainClass", "UID"},
          rows : UNION {[1..n -> GeoRows] : n \in 0..MaxFeatures}]

\* pandas unique(): the distinct values in order of first appearance
RECURSIVE unique(_)
unique(xs) ==
    IF xs = <<>> THEN <<>>
    ELSE <<Head(xs)>> \o SelectSeq(unique(Tail(xs)), LAMBDA x : x # Head(xs))

\* the manifest built from the layer: one unprocessed row per unique UID of the
\* rows whose TrainClass is 'Positive'
manifest_df(rows) ==
    LET gdf_positive == SelectSeq(rows, LAMBDA r : r.TrainClass = "Positive")
        unique_uids == unique([k \in 1..Len(gdf_positive) |-> gdf_positive[k].UID])
    IN  [k \in 1..Len(unique_uids) |-> ManifestRow(unique_uids[k], "unprocessed")]

ManifestIdle ==
    /\ m_manifest = NoManifest
    /\ m_manifest0 = NoManifest
    /\ m_answer = ""
    /\ m_geojson = [kind |-> "missing", columns |-> {}, rows |-> <<>>]
    /\ m_pc = "idle"
    /\ m_outcome = "none"

-----------------------------------------------------------------------------
(* Initial states *)

ResolverIdle ==
    /\ correspondence_gdf = <<>>
    /\ uid = "u1"
    /\ bucket_objects = {}
    /\ r_pc = "idle"
    /\ r_result = NoResult
    /\ r_table0 = <<>>
    /\ r_first = NoResult

TileIdle ==
    /\ gcs_paths = <<>>
    /\ center_point = [x |-> 0, y |-> 0]
    /\ center_crs = "EPSG:3857"
    /\ tile_size = 0
    /\ t_pc = "idle"
    /\ t_i = 0
    /\ t_src = {}
    /\ t_log = <<>>
    /\ t_setup = "none"
    /\ t_ret = Unset
    /\ t_exc = "none"

InitResolve ==
    /\ correspondence_gdf \in Tables
    /\ uid \in QueryUids
    /\ bucket_objects \in Buckets
    /\ r_pc = "call"
    /\ r_result = NoResult
    /\ r_table0 = correspondence_gdf
    /\ r_first = NoResult
    /\ TileIdle
    /\ LoadIdle
    /\ FeatureIdle
    /\ ManifestIdle

\* One call of get_image_paths_for_uid(uid, correspondence_gdf); the function
\* works on a copy of the uid's rows and the caller's table is not assigned
Call_get_image_paths_for_uid ==
    /\ r_pc = "call"
    /\ r_result' = get_image_paths_for_uid(uid, correspondence_gdf)
    /\ r_first' = r_result'
    /\ correspondence_gdf' = caller_table_after(uid, correspondence_gdf)
    /\ r_pc' = "done"
    /\ UNCHANGED <<uid, bucket_objects, r_table0, tvars, xvars>>

\* A second call with the same uid and the table as the first call left it
Call_again_get_image_paths_for_uid ==
    /\ r_pc = "done"
    /\ r_result' = get_image_paths_for_uid(uid, correspondence_gdf)
    /\ correspondence_gdf' = caller_table_after(uid, correspondence_gdf)
    /\ r_pc' = "again"
    /\ UNCHANGED <<uid, bucket_objects, r_table0, r_first, tvars, xvars>>

NextResolve ==
    \/ Call_get_image_paths_for_uid
    \/ Call_again_get_image_paths_for_uid

SpecResolve == InitResolve /\ [][NextResolve]_vars

-----------------------------------------------------------------------------
(* Year Resolver and path resolution: the notions of the specification *)

\* the rows of the caller's table with the queried uid
UidRowIdx == {k \in 1..Len(correspondence_gdf) : correspondence_gdf[k].UID = uid}
\* the image ids those rows cover
ImageIds == {correspondence_gdf[k].id : k \in UidRowIdx} \ {NoId}
\* the years available for one image id
YearSet(i) ==
    {correspondence_gdf[k].planet_basemap_year.v :
        k \in {j \in UidRowIdx : correspondence_gdf[j].id = i}}
UnionYears == UNION {YearSet(i) : i \in ImageIds}
CommonYears == {y \in UnionYears : \A i \in ImageIds : y \in YearSet(i)}

\* the year and the image id a returned path carries
PathYear(p) ==
    LET a == Min({k \in 1..Len(p) : p[k] = "global_quarterly_"})
        b == Min({k \in 1..Len(p) : p[k] = "q3"})
    IN  ParseDigits(SubSeq(p, a + 1, b - 1))
PathId(p) == p[Len(p) - 3]

\* t occurs in p as a run of consecutive characters
ContainsRun(p, t) ==
    \E a \in 0..(Len(p) - Len(t)) : \A k \in 1..Len(t) : p[a + k] = t[k]

\* the code point that decides the order of two strings differing at a token
TokenOrd(tok) ==
    IF tok \in Range(DigitChar) THEN 48 + DigitValue(tok)
    ELSE IF tok = "A" THEN 65
    ELSE IF tok = "B" THEN 66
    ELSE IF tok = NoId THEN 78
    ELSE 0

\* p < q as Python orders strings
PathLess(p, q) ==
    \E k \in 1..Len(p) :
        /\ k <= Len(q)
        /\ \A j \in 1..(k - 1) : p[j] = q[j]
        /\ TokenOrd(p[k]) < TokenOrd(q[k])

Returned == r_pc = "done" /\ ~r_result.raised
paths == r_result.paths

\* C1: when the per-image-id year sets of the uid's rows have a common year,
\* every returned path carries the maximum of the common years
C1_CommonYearIsMaxOfIntersection ==
    (Returned /\ ImageIds # {} /\ CommonYears # {}) =>
        \A k \in 1..Len(paths) : PathYear(paths[k]) = Max(CommonYears)

\* C2: when the year sets have no common year, every returned path carries
\* the maximum year of the union, and the image ids returned are those whose
\* year set contains that maximum
C2_FallbackIsMaxOfUnion ==
    (Returned /\ ImageIds # {} /\ CommonYears = {}) =>
        /\ \A k \in 1..Len(paths) : PathYear(paths[k]) = Max(UnionYears)
        /\ {PathId(paths[k]) : k \in 1..Len(paths)} \cap ImageIds
              = {i \in ImageIds : Max(UnionYears) \in YearSet(i)}

\* C3: all returned entries carry one and the same year, and each returned
\* (image_id, year) pair is that of a row of the table with the queried uid
C3_OneYearAndEveryEntryFromARow ==
    Returned =>
        /\ \A j, k \in 1..Len(paths) : PathYear(paths[j]) = PathYear(paths[k])
        /\ \A k \in 1..Len(paths) :
              \E n \in UidRowIdx :
                  /\ correspondence_gdf[n].id = PathId(paths[k])
                  /\ correspondence_gdf[n].planet_basemap_year.v = PathYear(paths[k])

\* C3 witness: two entries are returned and a row of the uid with another
\* year was filtered out
C3_Witness ==
    /\ Returned
    /\ Len(paths) >= 2
    /\ \E n \in UidRowIdx :
          correspondence_gdf[n].planet_basemap_year.v # PathYear(paths[1])

\* C4: exactly one entry is returned per image id whose year set contains
\* the selected year
C4_ExactlyOneEntryPerImageId ==
    (Returned /\ Len(paths) > 0) =>
        \A i \in ImageIds :
            PathYear(paths[1]) \in YearSet(i) =>
                Cardinality({k \in 1..Len(paths) : PathId(paths[k]) = i}) = 1

\* C5: for a uid that matches no row of the table the call returns an empty
\* list and raises nothing
C5_UnknownUidReturnsEmpty ==
    (r_pc = "done" /\ UidRowIdx = {}) =>
        (~r_result.raised /\ r_result.paths = <<>>)

\* C5 witness: the call returned for a uid absent from a table whose other
\* rows hold a year that cannot be coerced
C5_Witness ==
    /\ r_pc = "done"
    /\ UidRowIdx = {}
    /\ \E k \in 1..Len(correspondence_gdf) :
          correspondence_gdf[k].planet_basemap_year.t = "nan"

\* C6: the returned list of paths is sorted and holds no path twice
C6_PathsSortedAndDistinct ==
    Returned =>
        \A k \in 1..(Len(paths) - 1) : PathLess(paths[k], paths[k + 1])

\* C7: every returned path is an object known to exist in the store and
\* contains the year, the image id and the quad marker of its candidate
C7_PathsAreKnownObjects ==
    Returned =>
        \A k \in 1..Len(paths) :
            /\ paths[k] \in bucket_objects
            /\ ContainsRun(paths[k], <<QuadMarker>>)
            /\ \E n \in UidRowIdx :
                  /\ ContainsRun(paths[k], <<correspondence_gdf[n].id>>)
                  /\ ContainsRun(paths[k],
                                 Digits(correspondence_gdf[n].planet_basemap_year.v))

-----------------------------------------------------------------------------
(* get_image_tile, one step per remote operation *)

InitTile ==
    /\ gcs_paths \in PathLists
    /\ center_point \in Points
    /\ center_crs \in CrsNames
    /\ tile_size \in TileSizes
    /\ t_pc = "call"
    /\ t_i = 0
    /\ t_src = {}
    /\ t_log = <<>>
    /\ t_setup = "none"
    /\ t_ret = Unset
    /\ t_exc = "none"
    /\ ResolverIdle
    /\ LoadIdle
    /\ FeatureIdle
    /\ ManifestIdle

targs == <<gcs_paths, center_point, center_crs, tile_size>>

\* "if not gcs_paths: return None"
ReturnNoPaths ==
    /\ t_pc = "call"
    /\ gcs_paths = <<>>
    /\ t_ret' = NoneValue
    /\ t_pc' = "done"
    /\ UNCHANGED <<targs, t_i, t_src, t_log, t_setup, t_exc, rvars, xvars>>

\* gcs = gcsfs.GCSFileSystem() succeeds
SetupOk ==
    /\ t_pc = "call"
    /\ gcs_paths # <<>>
    /\ t_setup' = "ok"
    /\ t_i' = 1
    /\ t_pc' = "loop"
    /\ UNCHANGED <<targs, t_src, t_log, t_ret, t_exc, rvars, xvars>>

\* gcs = gcsfs.GCSFileSystem() raises: the call is outside the try block
SetupFail ==
    /\ t_pc = "call"
    /\ gcs_paths # <<>>
    /\ t_setup' = "error"
    /\ t_exc' = "setup"
    /\ t_pc' = "done"
    /\ UNCHANGED <<targs, t_i, t_src, t_log, t_ret, rvars, xvars>>

\* rasterio.open(path) succeeds for the next path of the list
OpenOk ==
    /\ t_pc = "loop"
    /\ t_i <= Len(gcs_paths)
    /\ t_src' = t_src \cup {t_i}
    /\ t_pc' = "opened"
    /\ UNCHANGED <<targs, t_i, t_log, t_setup, t_ret, t_exc, rvars, xvars>>

\* rasterio.open(path) raises: except Exception ... continue
OpenFail ==
    /\ t_pc = "loop"
    /\ t_i <= Len(gcs_paths)
    /\ t_log' = Append(t_log, Attempt(gcs_paths[t_i], "open_error", 0, 0))
    /\ t_i' = t_i + 1
    /\ UNCHANGED <<targs, t_pc, t_src, t_setup, t_ret, t_exc, rvars, xvars>>

\* the centre is not strictly inside src.bounds: continue
SkipOutOfBounds ==
    /\ t_pc = "opened"
    /\ ~in_bounds(Bounds(gcs_paths[t_i]), center_point)
    /\ t_log' = Append(t_log, Attempt(gcs_paths[t_i], "out_of_bounds", 0, 0))
    /\ t_src' = with_exit(t_src, t_i)
    /\ t_i' = t_i + 1
    /\ t_pc' = "loop"
    /\ UNCHANGED <<targs, t_setup, t_ret, t_exc, rvars, xvars>>

\* the window is computed and read: return data, profile
ReadOk ==
    /\ t_pc = "opened"
    /\ in_bounds(Bounds(gcs_paths[t_i]), center_point)
    /\ ~from_bounds_raises(tile_bounds(center_point, tile_size))
    /\ LET t == tile_of(gcs_paths[t_i], center_point, tile_size) IN
          /\ t_ret' = t
          /\ t_log' = Append(t_log, Attempt(gcs_paths[t_i], "ok",
                                            t.data.width, t.data.height))
    /\ t_src' = with_exit(t_src, t_i)
    /\ t_pc' = "done"
    /\ UNCHANGED <<targs, t_i, t_setup, t_exc, rvars, xvars>>

\* Mutant of ReadFail: the error of the read is not caught and reaches the
\* caller
ReadFailPropagates ==
    /\ t_pc = "opened"
    /\ in_bounds(Bounds(gcs_paths[t_i]), center_point)
    /\ t_log' = Append(t_log, Attempt(gcs_paths[t_i], "read_error", 0, 0))
    /\ t_src' = with_exit(t_src, t_i)
    /\ t_exc' = "read"
    /\ t_pc' = "done"
    /\ UNCHANGED <<targs, t_i, t_setup, t_ret, rvars, xvars>>

\* from_bounds or src.read raises: except Exception ... continue
ReadFail ==
    /\ t_pc = "opened"
    /\ in_bounds(Bounds(gcs_paths[t_i]), center_point)
    /\ t_log' = Append(t_log, Attempt(gcs_paths[t_i], "read_error", 0, 0))
    /\ t_src' = with_exit(t_src, t_i)
    /\ t_i' = t_i + 1
    /\ t_pc' = "loop"
    /\ UNCHANGED <<targs, t_setup, t_ret, t_exc, rvars, xvars>>

\* the loop ran out of paths: return None
Exhausted ==
    /\ t_pc = "loop"
    /\ t_i > Len(gcs_paths)
    /\ t_ret' = NoneValue
    /\ t_pc' = "done"
    /\ UNCHANGED <<targs, t_i, t_src, t_log, t_setup, t_exc, rvars, xvars>>

NextTile ==
    \/ ReturnNoPaths
    \/ SetupOk
    \/ SetupFail
    \/ OpenOk
    \/ OpenFail
    \/ SkipOutOfBounds
    \/ ReadOk
    \/ ReadFail
    \/ Exhausted

SpecTile == InitTile /\ [][NextTile]_vars

-----------------------------------------------------------------------------
(* Tile Reader claims *)

Attempts == 1..Len(t_log)
NonEmptyOk(a) == a.outcome = "ok" /\ a.width >= 1 /\ a.height >= 1
TileReturned == t_pc = "done" /\ t_ret.kind = "tuple"

\* C8: the paths are attempted in list order, each once; the call stops at
\* the first path that yields a successful non-empty read and returns that
\* path's data and profile; nothing is attempted after a success and no
\* failure of a path reaches the caller
C8_FirstSuccessWins ==
    /\ Len(t_log) <= Len(gcs_paths)
    /\ \A k \in Attempts : t_log[k].path = gcs_paths[k]
    /\ \A k \in Attempts : t_log[k].outcome = "ok" => k = Len(t_log)
    /\ t_setup = "ok" => t_exc = "none"
    /\ TileReturned =>
          /\ Len(t_log) >= 1
          /\ NonEmptyOk(t_log[Len(t_log)])
          /\ t_ret = tile_of(gcs_paths[Len(t_log)], center_point, tile_size)

\* C9: a returned pixel window has width >= 1 and height >= 1, and a path
\* whose window has no width or no height counts as a failure
C9_ReturnedWindowNotEmpty ==
    /\ TileReturned =>
          /\ t_ret.data.width >= 1 /\ t_ret.data.height >= 1
          /\ t_ret.profile.width >= 1 /\ t_ret.profile.height >= 1
    /\ \A k \in Attempts : t_log[k].outcome = "ok" => NonEmptyOk(t_log[k])

C11_AtMostOneHandleOpen ==
    /\ Cardinality(t_src) <= 1
    /\ t_pc = "opened" => t_src = {t_i}
    /\ t_pc # "opened" => t_src = {}

\* C11 witness: the call returned a tile from the third path after the
\* first was skipped for its bounds and the second failed to read, and no
\* handle is open
C11_Witness ==
    /\ TileReturned
    /\ Len(t_log) = 3
    /\ t_log[1].outcome = "out_of_bounds"
    /\ t_log[2].outcome = "read_error"
    /\ t_log[3].outcome = "ok"
    /\ t_src = {}

\* The coordinates of a point of CRS from, expressed in CRS to: a stand-in
\* for the projection, which moves every point when the two CRSs differ
Reproject(pt, from, to) ==
    IF from = to THEN pt
    ELSE IF to = "EPSG:3857" THEN [x |-> pt.x + 2, y |-> pt.y + 1]
    ELSE [x |-> pt.x - 2, y |-> pt.y - 1]

\* C12: for every path attempted, the overlap test and the pixel window are
\* computed from the caller's coordinates reprojected into the raster's CRS
C12_WindowInRasterCrs ==
    \A k \in Attempts :
        LET path == t_log[k].path
            pt == Reproject(center_point, center_crs, RasterCrs(path))
        IN  /\ t_log[k].outcome = "out_of_bounds" => ~in_bounds(Bounds(path), pt)
            /\ t_log[k].outcome \in {"ok", "read_error"} => in_bounds(Bounds(path), pt)
            /\ (TileReturned /\ k = Len(t_log)) => t_ret = tile_of(path, pt, tile_size)

-----------------------------------------------------------------------------
(* load_correspondence_data *)

InitLoad ==
    /\ l_file \in LoadFiles
    /\ l_pc = "call"
    /\ l_reads = 0
    /\ l_stderr = "none"
    /\ l_ret = Unset
    /\ ResolverIdle
    /\ TileIdle
    /\ FeatureIdle
    /\ ManifestIdle

\* Mutant of Load_NotFound: the existence of the path is not checked and the
\* missing file is handed to gpd.read_file, which raises
Load_NotFoundReads ==
    /\ l_pc = "call"
    /\ ~l_file.exists
    /\ l_reads' = l_reads + 1
    /\ l_stderr' = "load_error"
    /\ l_ret' = NoneValue
    /\ l_pc' = "done"
    /\ UNCHANGED <<l_file, rvars, tvars, fvars, mvars>>

\* "if not correspondence_path.exists(): ... return None"
Load_NotFound ==
    /\ l_pc = "call"
    /\ ~l_file.exists
    /\ l_stderr' = "not_found"
    /\ l_ret' = NoneValue
    /\ l_pc' = "done"
    /\ UNCHANGED <<l_file, l_reads, rvars, tvars, fvars, mvars>>

\* gpd.read_file succeeds: return gdf
Load_ReadOk ==
    /\ l_pc = "call"
    /\ l_file.exists
    /\ l_file.wellformed
    /\ l_reads' = l_reads + 1
    /\ l_ret' = read_file(l_file)
    /\ l_pc' = "done"
    /\ UNCHANGED <<l_file, l_stderr, rvars, tvars, fvars, mvars>>

\* gpd.read_file raises (malformed data, or an I/O error): except Exception
\* ... return None
Load_ReadError ==
    /\ l_pc = "call"
    /\ l_file.exists
    /\ l_reads' = l_reads + 1
    /\ l_stderr' = "load_error"
    /\ l_ret' = NoneValue
    /\ l_pc' = "done"
    /\ UNCHANGED <<l_file, rvars, tvars, fvars, mvars>>

NextLoad ==
    \/ Load_NotFound
    \/ Load_ReadOk
    \/ Load_ReadError

SpecLoad == InitLoad /\ [][NextLoad]_vars

\* C13: the table returned by a successful load declares the canonical CRS
\* EPSG:3413, with the coordinates of the file unchanged
C13_LoadedCrsIsCanonical ==
    (l_pc = "done" /\ l_ret.kind = "gdf") =>
        (l_ret.crs = CanonicalCrs /\ l_ret.coords = l_file.coords)

\* C14 as claimed: the caller gets a NotFoundError outcome for a missing path,
\* decided without reading, and a LoadError outcome for malformed data, and
\* no table in either case
C14_DistinctErrorKinds ==
    l_pc = "done" =>
        /\ ~l_file.exists => (l_ret.kind = "NotFoundError" /\ l_reads = 0)
        /\ (l_file.exists /\ ~l_file.wellformed) => l_ret.kind = "LoadError"

\* C14 as amended: None is returned both for a missing path, decided without
\* reading, and for malformed data, after one read; the two cases differ only
\* in the message written to stderr; a table is returned only for a
\* well-formed file
C14_NoneOnEitherError ==
    l_pc = "done" =>
        /\ ~l_file.exists =>
              (l_ret = NoneValue /\ l_reads = 0 /\ l_stderr = "not_found")
        /\ (l_file.exists /\ ~l_file.wellformed) =>
              (l_ret = NoneValue /\ l_reads = 1 /\ l_stderr = "load_error")
        /\ l_ret.kind = "gdf" => (l_file.exists /\ l_file.wellformed)

\* C14 witness: a load of a malformed file has returned None
C14_Witness ==
    /\ l_pc = "done"
    /\ l_file.exists /\ ~l_file.wellformed
    /\ l_ret = NoneValue
    /\ l_stderr = "load_error"

-----------------------------------------------------------------------------
(* get_feature_info *)

InitFeature ==
    /\ f_gdf \in FeatureTables
    /\ f_uid \in FeatureQueries
    /\ f_pc = "call"
    /\ f_ret = Unset
    /\ ResolverIdle
    /\ TileIdle
    /\ LoadIdle
    /\ ManifestIdle

\* "if feature_gdf.empty: ... return None"
Feature_NotFound ==
    /\ f_pc = "call"
    /\ feature_gdf(f_uid, f_gdf) = <<>>
    /\ f_ret' = NoneValue
    /\ f_pc' = "done"
    /\ UNCHANGED <<f_gdf, f_uid, rvars, tvars, lvars, mvars>>

\* return historical_polygons, centroid
Feature_Found ==
    /\ f_pc = "call"
    /\ feature_gdf(f_uid, f_gdf) # <<>>
    /\ LET historical_polygons == geometry_list(feature_gdf(f_uid, f_gdf))
       IN  f_ret' = [kind |-> "tuple",
                     historical_polygons |-> historical_polygons,
                     centroid |-> combined_centroid(historical_polygons)]
    /\ f_pc' = "done"
    /\ UNCHANGED <<f_gdf, f_uid, rvars, tvars, lvars, mvars>>

NextFeature ==
    \/ Feature_NotFound
    \/ Feature_Found

SpecFeature == InitFeature /\ [][NextFeature]_vars

\* the indices of the rows of the table whose UID is the queried uid
MatchIdx == {i \in 1..Len(f_gdf) : f_gdf[i].UID = f_uid}

\* the k-th smallest matching index
KthMatch(k) ==
    CHOOSE i \in MatchIdx : Cardinality({j \in MatchIdx : j <= i}) = k

\* C15: the not-found outcome is returned if and only if no row has the given
\* UID; otherwise the returned list holds exactly the geometries of the rows
\* with that UID, all of them and no others, in table order
C15_NotFoundIffNoRowElseMatchingGeometries ==
    f_pc = "done" =>
        /\ f_ret = NoneValue <=> MatchIdx = {}
        /\ f_ret # NoneValue =>
              /\ Len(f_ret.historical_polygons) = Cardinality(MatchIdx)
              /\ \A k \in 1..Len(f_ret.historical_polygons) :
                    f_ret.historical_polygons[k] = f_gdf[KthMatch(k)].geometry

\* C15 witness: rows of the queried uid on both sides of a row of another uid
C15_Witness ==
    /\ f_pc = "done"
    /\ Len(f_gdf) = 3
    /\ MatchIdx = {1, 3}
    /\ f_gdf[1].geometry # f_gdf[3].geometry
    /\ f_gdf[2].geometry \notin {f_gdf[1].geometry, f_gdf[3].geometry}
    /\ Len(f_ret.historical_polygons) = 2

\* the region covered by the rows of the queried uid
MatchedUnion == UNION {f_gdf[i].geometry : i \in MatchIdx}

\* the first moment of a region about a point p is zero on each axis
IsCentroidOf(p, region) ==
    /\ p.x[2] > 0 /\ GCD(p.x[1], p.x[2]) = 1
    /\ p.y[2] > 0 /\ GCD(p.y[1], p.y[2]) = 1
    /\ Sum(region, 1) * p.x[2] = 2 * Cardinality(region) * p.x[1]
    /\ Sum(region, 2) * p.y[2] = 2 * Cardinality(region) * p.y[1]

\* C16: the centroid returned is the centroid of the union of the geometries
\* matched for the uid
C16_CentroidOfUnion ==
    (f_pc = "done" /\ f_ret # NoneValue) =>
        IsCentroidOf(f_ret.centroid, MatchedUnion)

\* C16 witness: overlapping polygons of uneven size, for which the mean of the
\* per-polygon centroids is another point than the one returned
C16_Witness ==
    /\ f_pc = "done"
    /\ f_ret # NoneValue
    /\ \E i, j \in MatchIdx :
          /\ f_gdf[i].geometry \cap f_gdf[j].geometry # {}
          /\ Cardinality(f_gdf[i].geometry) # Cardinality(f_gdf[j].geometry)
    /\ mean_of_centroids(f_ret.historical_polygons) # f_ret.centroid
    /\ IsCentroidOf(f_ret.centroid, MatchedUnion)

-----------------------------------------------------------------------------
(* create_manifest *)

InitManifest ==
    /\ m_manifest \in Manifests
    /\ m_manifest0 = m_manifest
    /\ m_answer \in Answers \cup {EndOfInput}
    /\ m_geojson \in GeoJsons
    /\ m_pc = "start"
    /\ m_outcome = "none"
    /\ ResolverIdle
    /\ TileIdle
    /\ LoadIdle
    /\ FeatureIdle

\* the script ends on the given path without touching manifest.csv
Return(outcome) ==
    /\ m_outcome' = outcome
    /\ m_pc' = "done"
    /\ UNCHANGED <<m_manifest, m_manifest0, m_answer, m_geojson, rvars, tvars, lvars, fvars>>

\* the script goes on to read the input file
Proceed ==
    /\ m_pc' = "load"
    /\ UNCHANGED <<m_manifest, m_manifest0, m_answer, m_geojson, m_outcome, rvars, tvars, lvars, fvars>>

\* "if manifest_path.exists()" is false: no prompt
Manifest_Absent ==
    /\ m_pc = "start"
    /\ ~m_manifest.exists
    /\ Proceed

\* "if overwrite != 'y': ... return"
Manifest_Declined ==
    /\ m_pc = "start"
    /\ m_manifest.exists
    /\ m_answer # EndOfInput
    /\ ~overwrite_confirmed(m_answer)
    /\ Return("cancelled")

\* the answer is 'y' or 'Y'
Manifest_Confirmed ==
    /\ m_pc = "start"
    /\ m_manifest.exists
    /\ m_answer # EndOfInput
    /\ overwrite_confirmed(m_answer)
    /\ Proceed

\* input() raises, caught by the outer "except Exception"
Manifest_InputRaises ==
    /\ m_pc = "start"
    /\ m_manifest.exists
    /\ m_answer = EndOfInput
    /\ Return("unexpected_error")

\* "if not geojson_path.exists(): ... return"
Geojson_Missing ==
    /\ m_pc = "load"
    /\ m_geojson.kind = "missing"
    /\ Return("geojson_missing")

\* "except json.JSONDecodeError ... return"
Geojson_InvalidJson ==
    /\ m_pc = "load"
    /\ m_geojson.kind = "invalid_json"
    /\ Return("invalid_json")

\* open() or json.load raises another exception: "except Exception ... return"
Geojson_Unreadable ==
    /\ m_pc = "load"
    /\ m_geojson.kind = "unreadable"
    /\ Return("unreadable")

\* gpd.read_file raises, caught by the outer "except Exception"
Geojson_ReadFileRaises ==
    /\ m_pc = "load"
    /\ m_geojson.kind = "not_a_layer"
    /\ Return("unexpected_error")

\* "if 'TrainClass' not in gdf.columns: ... return"
Geojson_NoTrainClass ==
    /\ m_pc = "load"
    /\ m_geojson.kind = "layer"
    /\ "TrainClass" \notin m_geojson.columns
    /\ Return("no_trainclass")

\* "if 'UID' not in gdf_positive.columns: ... return"
Geojson_NoUid ==
    /\ m_pc = "load"
    /\ m_geojson.kind = "layer"
    /\ "TrainClass" \in m_geojson.columns
    /\ "UID" \notin m_geojson.columns
    /\ Return("no_uid")

\* manifest_df.to_csv(manifest_path, index=False)
Save ==
    /\ m_pc = "load"
    /\ m_geojson.kind = "layer"
    /\ {"TrainClass", "UID"} \subseteq m_geojson.columns
    /\ m_manifest' = [exists |-> TRUE, rows |-> manifest_df(m_geojson.rows)]
    /\ m_outcome' = "saved"
    /\ m_pc' = "done"
    /\ UNCHANGED <<m_manifest0, m_answer, m_geojson, rvars, tvars, lvars, fvars>>

\* to_csv raises after opening manifest.csv for writing: the file is left
\* empty; caught by the outer "except Exception"
SaveRaises ==
    /\ m_pc = "load"
    /\ m_geojson.kind = "layer"
    /\ {"TrainClass", "UID"} \subseteq m_geojson.columns
    /\ m_manifest' \in {m_manifest, [exists |-> TRUE, rows |-> <<>>]}
    /\ m_outcome' = "unexpected_error"
    /\ m_pc' = "done"
    /\ UNCHANGED <<m_manifest0, m_answer, m_geojson, rvars, tvars, lvars, fvars>>

NextManifest ==
    \/ Manifest_Absent
    \/ Manifest_Declined
    \/ Manifest_Confirmed
    \/ Manifest_InputRaises
    \/ Geojson_Missing
    \/ Geojson_InvalidJson
    \/ Geojson_Unreadable
    \/ Geojson_ReadFileRaises
    \/ Geojson_NoTrainClass
    \/ Geojson_NoUid
    \/ Save
    \/ SaveRaises

SpecManifest == InitManifest /\ [][NextManifest]_vars

\* the user was asked and the lower-cased answer is not 'y'
NotConfirmed ==
    /\ m_manifest0.exists
    /\ m_answer \in Answers
    /\ m_answer \notin {"y", "Y"}

\* the input file is missing, is not JSON, or lacks one of the two columns
ErrorInput ==
    \/ m_geojson.kind \in {"missing", "invalid_json"}
    \/ /\ m_geojson.kind = "layer"
       /\ ~({"TrainClass", "UID"} \subseteq m_geojson.columns)

\* C17: an existing manifest is never overwritten without confirmation, and
\* no manifest is written or modified when the input file is missing, is not
\* valid JSON, or lacks the 'TrainClass' or 'UID' column
C17_NoOverwriteWithoutConfirmation ==
    /\ NotConfirmed => (m_manifest = m_manifest0 /\ m_pc # "load")
    /\ ErrorInput => m_manifest = m_manifest0
    /\ (m_pc = "done" /\ m_manifest # m_manifest0) =>
          m_outcome \in {"saved", "unexpected_error"}

\* C17 witness: the manifest holds completed work, the input file would give
\* another manifest, the user answered something other than 'y', and the
\* script has ended with the manifest as it was
C17_Witness ==
    /\ m_pc = "done"
    /\ m_outcome = "cancelled"
    /\ m_answer = "yes"
    /\ m_manifest0.rows # <<>>
    /\ m_geojson.kind = "layer"
    /\ {"TrainClass", "UID"} \subseteq m_geojson.columns
    /\ manifest_df(m_geojson.rows) # m_manifest0.rows
    /\ m_manifest = m_manifest0

-----------------------------------------------------------------------------
(* get_image_paths_for_uid and the caller's table *)

=============================================================================
